---- MODULE Spec2Model ----
(***************************************************************************)
(* A model of src/bot.py, the "simple ping bot": main() fetches targets    *)
(* from the Django API (get_targets_from_api), pings each one              *)
(* (ping_domain), prints a summary and uploads the results                 *)
(* (upload_results_to_django).                                             *)
(*                                                                         *)
(* Python strings whose characters the code inspects (GROUP_IDS, the       *)
(* status of a result, the lines of ping's output) are sequences of        *)
(* characters or of words; other strings are TLA+ strings.  The timestamp  *)
(* field of a result is wall-clock text that no branch reads; it is left   *)
(* out of the result records.                                              *)
(***************************************************************************)
EXTENDS Integers, Sequences, FiniteSets, TLC

\* ------------------------------------------------------------------ bounds
\* Most programs in one programs-list response.
MaxPrograms == 2
\* Most scope entries in one scopes response.
MaxScopes == 2
\* Most targets the API's data yields in one run.
MaxTargets == 2

\* ------------------------------------------------------- Python primitives
\* Python's None (a JSON null, or the default of dict.get).
None == "<None>"

\* Python truthiness of None or a string.
Truthy(v) == v # None /\ v # ""

\* Python's `a or b`.
Or(a, b) == IF Truthy(a) THEN a ELSE b

\* dict.get(key) on a JSON object, a function from its keys.
Get(d, key) == IF key \in DOMAIN d THEN d[key] ELSE None

\* The sequences over S of length lo..hi.
SeqsOf(S, lo, hi) == UNION {[1..n -> S] : n \in lo..hi}

\* Python's `needle in hay` on strings, as sequences of characters.
Contains(hay, needle) ==
  \E k \in 0..(Len(hay) - Len(needle)) :
    \A j \in 1..Len(needle) : hay[k + j] = needle[j]

IsSpace(c) == c = " "

\* str.strip(): drop the leading and the trailing whitespace.
RECURSIVE LStrip(_)
LStrip(s) == IF s # <<>> /\ IsSpace(Head(s)) THEN LStrip(Tail(s)) ELSE s

RECURSIVE RStrip(_)
RStrip(s) ==
  IF s # <<>> /\ IsSpace(s[Len(s)]) THEN RStrip(SubSeq(s, 1, Len(s) - 1)) ELSE s

Strip(s) == RStrip(LStrip(s))

\* str.split(','): the fields between the commas, at least one field.
RECURSIVE SplitFrom(_, _, _)
SplitFrom(s, cur, acc) ==
  IF s = <<>> THEN Append(acc, cur)
  ELSE IF Head(s) = "," THEN SplitFrom(Tail(s), <<>>, Append(acc, cur))
  ELSE SplitFrom(Tail(s), Append(cur, Head(s)), acc)

Split(s) == SplitFrom(s, <<>>, <<>>)

\* ---------------------------------------------------------- configuration
\* The values of the GROUP_IDS environment variable: empty, the default "1",
\* two ids, ids with blanks and an empty field, commas only.
GroupIdsChoices ==
  { <<>>,
    <<"1">>,
    <<"1", ",", "2">>,
    <<" ", "1", " ", ",", ",", "2", " ">>,
    <<",", " ">> }

\* group_ids = [g.strip() for g in GROUP_IDS.split(',') if g.strip()]
RECURSIVE StripAll(_)
StripAll(fields) ==
  IF fields = <<>> THEN <<>>
  ELSE IF Strip(Head(fields)) # <<>>
       THEN <<Strip(Head(fields))>> \o StripAll(Tail(fields))
       ELSE StripAll(Tail(fields))

ParseGroupIds(s) == StripAll(Split(s))

\* ------------------------------------------------------ the API's answers
\* Programs of a programs-list response; the last one lacks its 'id' key.
ProgramChoices ==
  { [id |-> "10", name |-> "alpha"],
    [id |-> "20", name |-> "beta"],
    [name |-> "gamma"] }

\* Scope entries of a scopes response: JSON objects, keys possibly missing.
ScopeChoices ==
  { [scope_type |-> "in_scope", domain |-> "a.example", target |-> "b.example"],
    [scope_type |-> "in_scope", domain |-> "", target |-> "b.example"],
    [scope_type |-> "in_scope", domain |-> None],
    [scope_type |-> "out_of_scope", domain |-> "a.example"],
    [target |-> "b.example"] }

\* What one HTTP call does: a response with a status code (200 with a JSON
\* body, 200 with a body json() rejects, or another code), or an exception
\* of the requests library.
HttpKinds == {"ok", "badjson", "non200", "raise"}

\* -------------------------------------------------- get_targets_from_api
\* CollectScopes with the two fields tried in the other order.
RECURSIVE CollectScopes_targetFirst(_, _, _)
CollectScopes_targetFirst(scopes, program_name, acc) ==
  IF scopes = <<>> THEN acc
  ELSE LET scope == Head(scopes)
           domain == Or(Get(scope, "target"), Get(scope, "domain"))
       IN IF Get(scope, "scope_type") = "in_scope" /\ Truthy(domain)
          THEN CollectScopes_targetFirst(Tail(scopes), program_name,
                 Append(acc, [domain |-> domain, program |-> program_name]))
          ELSE CollectScopes_targetFirst(Tail(scopes), program_name, acc)

\* The inner loop over one scopes response, entry by entry.
RECURSIVE CollectScopes(_, _, _)
CollectScopes(scopes, program_name, acc) ==
  IF scopes = <<>> THEN acc
  ELSE LET scope == Head(scopes)
           domain == Or(Get(scope, "domain"), Get(scope, "target"))
       IN IF Get(scope, "scope_type") = "in_scope"
          THEN IF Truthy(domain)
               THEN CollectScopes(Tail(scopes), program_name,
                      Append(acc, [domain |-> domain, program |-> program_name]))
               ELSE CollectScopes(Tail(scopes), program_name, acc)
          ELSE CollectScopes(Tail(scopes), program_name, acc)

\* ------------------------------------------------------------ ping_domain
\* The characters the statuses start with and the summary looks for.
CheckMark == <<"U+2705">>
CrossMark == <<"U+274C">>
Stopwatch == <<"U+23F1", "U+FE0F">>

StatusOnline == CheckMark \o <<" ", "O", "N", "L", "I", "N", "E">>
StatusOffline == CrossMark \o <<" ", "O", "F", "F", "L", "I", "N", "E">>
StatusTimeout == Stopwatch \o <<" ", "T", "I", "M", "E", "O", "U", "T">>
\* StatusError with a warning sign in place of the cross mark.
StatusError_warn == <<"U+26A0", "U+FE0F", " ", "E", "R", "R", "O", "R">>

StatusError == CrossMark \o <<" ", "E", "R", "R", "O", "R">>

\* Lines of ping's standard output, each a sequence of words.
HeaderLine == <<"PING", "host", "56", "data", "bytes">>
RttLine == <<"rtt", "min/avg/max", "/mdev", "=", "1.0/2.0/3.0/0.5", "ms">>
RoundTripLine == <<"round-trip", "min/avg/max", "/stddev", "=", "1.0/2.0/3.0/0.5", "ms">>
LossLine == <<"4", "packets", "transmitted,", "0", "received">>

StdoutChoices ==
  { <<HeaderLine, LossLine>>, <<HeaderLine, LossLine, RttLine>>,
    <<HeaderLine, RoundTripLine, LossLine>> }

\* What subprocess.run does: the process exits with a return code, the
\* 30-second timeout expires, or another exception is raised.
PingOutcomes ==
  { [kind |-> "exit", returncode |-> 0, stdout |-> out] : out \in StdoutChoices }
  \cup { [kind |-> "exit", returncode |-> rc, stdout |-> <<HeaderLine, LossLine>>] :
           rc \in {1, 2} }
  \cup { [kind |-> "timeout"] }
  \cup { [kind |-> "exception", text |-> "[Errno 2] No such file or directory: 'ping'"] }

\* stats_line = [l for l in lines if 'min/avg/max' in l or 'rtt' in l]
StatsLines(lines) ==
  SelectSeq(lines, LAMBDA l : Contains(l, <<"min/avg/max">>) \/ Contains(l, <<"rtt">>))

\* ping_domain with the TimeoutExpired clause missing: the timeout falls to
\* the general `except Exception` clause.
ping_domain_noTimeoutClause(domain, o) ==
  IF o.kind = "exit"
  THEN IF o.returncode = 0
       THEN [domain |-> domain, status |-> StatusOnline,
             details |-> IF StatsLines(o.stdout) # <<>>
                         THEN <<"line", StatsLines(o.stdout)[1]>>
                         ELSE <<"text", "Ping successful">>]
       ELSE [domain |-> domain, status |-> StatusOffline,
             details |-> <<"text", "Host unreachable">>]
  ELSE [domain |-> domain, status |-> StatusError,
        details |-> <<"text", IF o.kind = "timeout" THEN "timed out" ELSE o.text>>]

\* The dictionary ping_domain returns for a domain and an outcome of the run.
ping_domain(domain, o) ==
  IF o.kind = "exit"
  THEN IF o.returncode = 0
       THEN [domain |-> domain, status |-> StatusOnline,
             details |-> IF StatsLines(o.stdout) # <<>>
                         THEN <<"line", StatsLines(o.stdout)[1]>>
                         ELSE <<"text", "Ping successful">>]
       ELSE [domain |-> domain, status |-> StatusOffline,
             details |-> <<"text", "Host unreachable">>]
  ELSE IF o.kind = "timeout"
  THEN [domain |-> domain, status |-> StatusTimeout,
        details |-> <<"text", "Ping timeout after 30s">>]
  ELSE [domain |-> domain, status |-> StatusError,
        details |-> <<"text", o.text>>]

\* ------------------------------------------------------------------ state
VARIABLES
  GROUP_IDS,    \* the environment variable, a sequence of characters
  pc,           \* where main() is
  group_ids,    \* get_targets_from_api: the parsed group ids
  gi,           \* get_targets_from_api: index of the current group
  programs,     \* get_targets_from_api: the current group's programs
  pi,           \* get_targets_from_api: index of the current program
  all_domains,  \* get_targets_from_api: the targets collected so far
  targets,      \* main: what get_targets_from_api returned
  results,      \* main: the results of the pings so far
  i,            \* main: index of the current target
  summary,      \* main: the counts the summary prints
  exit,         \* how the process ended: "running", "normal", "uncaught"
  printed,      \* the milestones printed on standard output
  pinged,       \* observer: the domains handed to ping, in order
  lastOutcome,  \* observer: what the latest run of ping did
  sleeps,       \* observer: number of 2-second pauses taken
  posts,        \* observer: number of upload POSTs issued
  fetchObs      \* observer of a call of get_targets_from_api, see NoFetchObs

progVars ==
  << GROUP_IDS, pc, group_ids, gi, programs, pi, all_domains, targets, results,
     i, summary, exit, printed >>
probeObs == << pinged, lastOutcome, sleeps, posts >>
vars == << progVars, probeObs, fetchObs >>

fetchLocals == << group_ids, gi, programs, pi, all_domains >>

NoSummary == [online |-> 0, offline |-> 0, timeout |-> 0, total |-> 0]

\* What the observer of get_targets_from_api records:
\*   groupGets  programs-list requests issued
\*   unasked    programs listed by a 200 answer whose scopes were not requested
\*   skipped    some answer was not a 200
\*   raised     an exception was raised inside the function
\*   lateGets   requests issued after an exception
\*   dropped    some scope entry of a 200 answer is not an in-scope target
\*   expected   the in-scope targets of the 200 scopes answers, in order
\*   kept       an in-scope target was answered after a non-200 answer
NoFetchObs ==
  [groupGets |-> 0, unasked |-> 0, skipped |-> FALSE, raised |-> FALSE,
   lateGets |-> 0, dropped |-> FALSE, expected |-> <<>>, kept |-> FALSE]

Init ==
  /\ GROUP_IDS \in GroupIdsChoices
  /\ pc = "start"
  /\ group_ids = <<>> /\ gi = 0 /\ programs = <<>> /\ pi = 0 /\ all_domains = <<>>
  /\ targets = <<>> /\ results = <<>> /\ i = 0 /\ summary = NoSummary
  /\ exit = "running" /\ printed = {}
  /\ pinged = <<>> /\ lastOutcome = [kind |-> "none"] /\ sleeps = 0 /\ posts = 0
  /\ fetchObs = NoFetchObs

\* The rule for the targets of one scopes answer, stated on the entries: an
\* entry counts when its scope_type is "in_scope" and its domain or its
\* target field is a non-empty string.
HasText(scope, key) == key \in DOMAIN scope /\ scope[key] \notin {None, ""}

InScope(scope) ==
  /\ "scope_type" \in DOMAIN scope /\ scope.scope_type = "in_scope"
  /\ HasText(scope, "domain") \/ HasText(scope, "target")

TargetOf(scope, name) ==
  [domain |-> IF HasText(scope, "domain") THEN scope.domain ELSE scope.target,
   program |-> name]

ExpectedOf(scopes, name) ==
  LET kept == SelectSeq(scopes, InScope)
  IN [k \in 1..Len(kept) |-> TargetOf(kept[k], name)]

\* ----------------------------------------------------------- the observer
ObserveGroup(kind, body) ==
  fetchObs' =
    [fetchObs EXCEPT
       !.groupGets = @ + 1,
       !.lateGets = @ + (IF fetchObs.raised THEN 1 ELSE 0),
       !.unasked = @ + (IF kind = "ok" THEN Len(body) ELSE 0),
       !.skipped = @ \/ kind = "non200",
       !.raised = @ \/ kind \in {"badjson", "raise"}]

ObserveScopes(kind, scopes) ==
  LET found == IF kind = "ok" THEN ExpectedOf(scopes, programs[pi].name) ELSE <<>>
  IN fetchObs' =
       [fetchObs EXCEPT
          !.unasked = @ - 1,
          !.lateGets = @ + (IF fetchObs.raised THEN 1 ELSE 0),
          !.skipped = @ \/ kind = "non200",
          !.raised = @ \/ kind \in {"badjson", "raise"},
          !.dropped = @ \/ Len(found) < Len(scopes),
          !.expected = @ \o found,
          !.kept = @ \/ (fetchObs.skipped /\ found # <<>>)]

ObserveKeyError == fetchObs' = [fetchObs EXCEPT !.raised = TRUE]

\* -------------------------------------------------- get_targets_from_api
\* `return all_domains` once the loop over the groups is exhausted, else on
\* to group g; the function's locals die with the return.
ReturnOrGroup(g, domains) ==
  IF g > Len(group_ids')
  THEN /\ pc' = "check_targets"
       /\ targets' = domains
       /\ gi' = 0 /\ programs' = <<>> /\ pi' = 0 /\ all_domains' = <<>>
  ELSE /\ pc' = "group_loop"
       /\ targets' = targets
       /\ gi' = g /\ programs' = <<>> /\ pi' = 0 /\ all_domains' = domains

\* ReturnEmpty returning what was collected before the exception.
ReturnEmpty_partial ==
  /\ pc' = "check_targets"
  /\ targets' = all_domains
  /\ gi' = 0 /\ programs' = <<>> /\ pi' = 0 /\ all_domains' = <<>>

\* The `except Exception` clause: print the error, return [].
ReturnEmpty ==
  /\ pc' = "check_targets"
  /\ targets' = <<>>
  /\ gi' = 0 /\ programs' = <<>> /\ pi' = 0 /\ all_domains' = <<>>

\* GroupFailed with `break` in place of `continue`.
GroupFailed_break ==
  /\ ReturnOrGroup(Len(group_ids) + 1, all_domains)
  /\ printed' = printed \cup {"group_failed"}

\* A programs-list answer other than 200: print the failure, `continue`.
GroupFailed ==
  /\ ReturnOrGroup(gi + 1, all_domains)
  /\ printed' = printed \cup {"group_failed"}

\* A scopes answer other than 200: nothing is collected for the program.
ScopesFailed(domains) == domains

\* main() up to the first request of get_targets_from_api.
Start ==
  /\ pc = "start"
  /\ group_ids' = ParseGroupIds(GROUP_IDS)
  /\ ReturnOrGroup(1, <<>>)
  /\ UNCHANGED << GROUP_IDS, results, i, summary, exit, printed >>

\* GET /api/groups/{group_id}/programs/ and what follows up to the next call.
GroupRequest(kind, body) ==
  /\ pc = "group_loop"
  /\ UNCHANGED << GROUP_IDS, group_ids, results, i, summary, exit >>
  /\ CASE kind = "non200" -> GroupFailed
       [] kind = "ok" ->
            /\ UNCHANGED printed
            /\ IF body = <<>>
               THEN ReturnOrGroup(gi + 1, all_domains)
               ELSE /\ pc' = "program_loop"
                    /\ programs' = body /\ pi' = 1
                    /\ UNCHANGED << gi, all_domains, targets >>
       [] OTHER -> ReturnEmpty /\ UNCHANGED printed

\* The keys main reads of a program of the list.
WellFormed(program) == "id" \in DOMAIN program /\ "name" \in DOMAIN program

\* One turn of the loop over the programs: read the program's id and name,
\* GET /api/programs/{program_id}/scopes/, collect the in-scope entries.
ScopesRequest(kind, scopes) ==
  /\ pc = "program_loop"
  /\ WellFormed(programs[pi])
  /\ UNCHANGED << GROUP_IDS, group_ids, results, i, summary, exit, printed >>
  /\ LET next(domains) ==
           IF pi < Len(programs)
           THEN /\ pi' = pi + 1 /\ all_domains' = domains
                /\ UNCHANGED << pc, gi, programs, targets >>
           ELSE ReturnOrGroup(gi + 1, domains)
     IN CASE kind = "non200" -> next(ScopesFailed(all_domains))
          [] kind = "ok" ->
               LET domains == CollectScopes(scopes, programs[pi].name, all_domains)
               IN Len(domains) <= MaxTargets /\ next(domains)
          [] OTHER -> ReturnEmpty

\* A turn of the loop over the programs on a program without its 'id' or
\* 'name': program['id'] raises KeyError before any request.
ProgramKeyError ==
  /\ pc = "program_loop"
  /\ ~WellFormed(programs[pi])
  /\ ReturnEmpty
  /\ UNCHANGED << GROUP_IDS, group_ids, results, i, summary, exit, printed >>

\* The answers of the API to one call.
ProgramsAnswers ==
  { <<kind, body>> : kind \in HttpKinds \ {"ok"}, body \in {<<>>} }
  \cup { <<"ok", body>> : body \in SeqsOf(ProgramChoices, 0, MaxPrograms) }

ScopesAnswers ==
  { <<kind, scopes>> : kind \in HttpKinds \ {"ok"}, scopes \in {<<>>} }
  \cup { <<"ok", scopes>> : scopes \in SeqsOf(ScopeChoices, 0, MaxScopes) }

\* ------------------------------------------------------------------- main
\* CheckTargets without the early return: the empty loop, then the summary.
CheckTargets_fallThrough ==
  /\ pc = "check_targets"
  /\ IF targets = <<>>
     THEN /\ printed' = printed \cup {"no_targets"}
          /\ results' = <<>>
          /\ pc' = "summary"
          /\ UNCHANGED << i, exit >>
     ELSE /\ results' = <<>>
          /\ i' = 1
          /\ pc' = "ping"
          /\ UNCHANGED << printed, exit >>
  /\ UNCHANGED << GROUP_IDS, targets, summary >>
  /\ UNCHANGED fetchLocals
  /\ UNCHANGED probeObs

\* `if not targets:` after get_targets_from_api returned.  With no target
\* main prints the message and calls send_telegram, a name bound nowhere in
\* the file: the call raises NameError, which nothing catches.
CheckTargets ==
  /\ pc = "check_targets"
  /\ IF targets = <<>>
     THEN /\ printed' = printed \cup {"no_targets"}
          /\ pc' = "exited"
          /\ exit' = "uncaught"
          /\ UNCHANGED << results, i >>
     ELSE /\ results' = <<>>
          /\ i' = 1
          /\ pc' = "ping"
          /\ UNCHANGED << printed, exit >>
  /\ UNCHANGED << GROUP_IDS, targets, summary >>
  /\ UNCHANGED fetchLocals
  /\ UNCHANGED probeObs

\* WithProgram taking the target's domain for the program.
WithProgram_domain(result, target) ==
  [domain |-> result.domain, status |-> result.status,
   details |-> result.details, program |-> target.domain]

\* result['program'] = target['program']
WithProgram(result, target) ==
  [domain |-> result.domain, status |-> result.status,
   details |-> result.details, program |-> target.program]

\* Ping pinging the same target again after a timeout.
Ping_retry(o) ==
  /\ pc = "ping"
  /\ results' = Append(results, WithProgram(ping_domain(targets[i].domain, o), targets[i]))
  /\ pinged' = Append(pinged, targets[i].domain)
  /\ lastOutcome' = o
  /\ pc' = IF o.kind = "timeout" THEN "ping" ELSE "sleep"
  /\ UNCHANGED << GROUP_IDS, targets, i, summary, exit, printed, sleeps, posts >>
  /\ UNCHANGED fetchLocals

\* One turn of the probe loop up to the pause: ping_domain(target['domain']),
\* result['program'] = target['program'], results.append(result).
Ping(o) ==
  /\ pc = "ping"
  /\ results' = Append(results, WithProgram(ping_domain(targets[i].domain, o), targets[i]))
  /\ pinged' = Append(pinged, targets[i].domain)
  /\ lastOutcome' = o
  /\ pc' = "sleep"
  /\ UNCHANGED << GROUP_IDS, targets, i, summary, exit, printed, sleeps, posts >>
  /\ UNCHANGED fetchLocals

\* time.sleep(2), then on to the next target or out of the loop.
Sleep ==
  /\ pc = "sleep"
  /\ sleeps' = sleeps + 1
  /\ IF i < Len(targets)
     THEN i' = i + 1 /\ pc' = "ping"
     ELSE i' = i /\ pc' = "summary"
  /\ UNCHANGED << GROUP_IDS, targets, results, summary, exit, printed, pinged,
                  lastOutcome, posts >>
  /\ UNCHANGED fetchLocals

\* The three lists of the summary and the four counts it prints.
Online(rs) == SelectSeq(rs, LAMBDA r : Contains(r.status, CheckMark))
Offline(rs) == SelectSeq(rs, LAMBDA r : Contains(r.status, CrossMark))
Timeout(rs) == SelectSeq(rs, LAMBDA r : Contains(r.status, Stopwatch))

Summary ==
  /\ pc = "summary"
  /\ summary' = [online |-> Len(Online(results)),
                 offline |-> Len(Offline(results)),
                 timeout |-> Len(Timeout(results)),
                 total |-> Len(results)]
  /\ printed' = printed \cup {"summary"}
  /\ pc' = "upload"
  /\ UNCHANGED << GROUP_IDS, targets, results, i, exit >>
  /\ UNCHANGED fetchLocals
  /\ UNCHANGED probeObs

\* upload_results_to_django(results): one POST; a 200, another status code
\* and an exception all end in a print and a normal return.
UploadKinds == {"ok", "non200", "raise"}

UploadMessage(kind) ==
  CASE kind = "ok" -> "uploaded"
    [] kind = "non200" -> "upload_failed"
    [] OTHER -> "upload_error"

\* Upload posting again after a failed upload.
Upload_retry(kind) ==
  /\ pc = "upload"
  /\ posts' = posts + 1
  /\ printed' = printed \cup {UploadMessage(kind)}
  /\ pc' = IF kind = "ok" THEN "done" ELSE "upload"
  /\ UNCHANGED << GROUP_IDS, targets, results, i, summary, exit, pinged,
                  lastOutcome, sleeps >>
  /\ UNCHANGED fetchLocals

Upload(kind) ==
  /\ pc = "upload"
  /\ posts' = posts + 1
  /\ printed' = printed \cup {UploadMessage(kind)}
  /\ pc' = "done"
  /\ UNCHANGED << GROUP_IDS, targets, results, i, summary, exit, pinged,
                  lastOutcome, sleeps >>
  /\ UNCHANGED fetchLocals

\* The closing prints of main() and its return.
Done ==
  /\ pc = "done"
  /\ printed' = printed \cup {"done"}
  /\ pc' = "exited"
  /\ exit' = "normal"
  /\ UNCHANGED << GROUP_IDS, targets, results, i, summary >>
  /\ UNCHANGED fetchLocals
  /\ UNCHANGED probeObs

\* --------------------------------------------------------- specifications
\* A run of the program.
Next ==
  \/ Start /\ UNCHANGED << probeObs, fetchObs >>
  \/ \E a \in ProgramsAnswers :
       GroupRequest(a[1], a[2]) /\ UNCHANGED << probeObs, fetchObs >>
  \/ \E a \in ScopesAnswers :
       ScopesRequest(a[1], a[2]) /\ UNCHANGED << probeObs, fetchObs >>
  \/ ProgramKeyError /\ UNCHANGED << probeObs, fetchObs >>
  \/ CheckTargets /\ UNCHANGED fetchObs
  \/ \E o \in PingOutcomes : Ping(o) /\ UNCHANGED fetchObs
  \/ Sleep /\ UNCHANGED fetchObs
  \/ Summary /\ UNCHANGED fetchObs
  \/ \E kind \in UploadKinds : Upload(kind) /\ UNCHANGED fetchObs
  \/ Done /\ UNCHANGED fetchObs

Spec == Init /\ [][Next]_vars

\* A call of get_targets_from_api, watched by the observer.
NextFetch ==
  \/ Start /\ UNCHANGED << probeObs, fetchObs >>
  \/ \E a \in ProgramsAnswers :
       GroupRequest(a[1], a[2]) /\ ObserveGroup(a[1], a[2]) /\ UNCHANGED probeObs
  \/ \E a \in ScopesAnswers :
       ScopesRequest(a[1], a[2]) /\ ObserveScopes(a[1], a[2]) /\ UNCHANGED probeObs
  \/ ProgramKeyError /\ ObserveKeyError /\ UNCHANGED probeObs

SpecFetch == Init /\ [][NextFetch]_vars

\* ----------------------------------------------------------------- claims
InFetch == pc \in {"start", "group_loop", "program_loop"}
Returned == pc = "check_targets"
AfterLoop == pc \in {"summary", "upload", "done"} \/ (pc = "exited" /\ exit = "normal")

Count(x, seq) == Cardinality({k \in 1..Len(seq) : seq[k] = x})
Range(seq) == {seq[k] : k \in 1..Len(seq)}

IsError(r) == Contains(r.status, <<"E", "R", "R", "O", "R">>)
IsOffline(r) == Contains(r.status, <<"O", "F", "F", "L", "I", "N", "E">>)
IsOnline(r) == Contains(r.status, <<"O", "N", "L", "I", "N", "E">>)
IsTimeout(r) == Contains(r.status, <<"T", "I", "M", "E", "O", "U", "T">>)
HowMany(P(_), rs) == Cardinality({k \in 1..Len(rs) : P(rs[k])})

\* C1: main() terminates normally in every run; no error escapes as an
\* uncaught exception, also when the target list is empty.
C1_MainTerminatesNormally == exit # "uncaught"

\* C2: a non-200 answer skips only its group or its program.  When the fetch
\* returns without an exception, every group id of GROUP_IDS was requested,
\* every program listed by a 200 answer was requested, and every in-scope
\* target of the 200 scopes answers is in the returned list.
C2_Non200SkipsOnlyThat ==
  (Returned /\ ~fetchObs.raised) =>
    /\ fetchObs.groupGets = Len(ParseGroupIds(GROUP_IDS))
    /\ fetchObs.unasked = 0
    /\ \A t \in Range(fetchObs.expected) :
         Count(t, targets) >= Count(t, fetchObs.expected)

\* A fetch that met a non-200 answer and collected a target after it.
C2_Witness ==
  /\ Returned /\ ~fetchObs.raised
  /\ "group_failed" \in printed
  /\ fetchObs.skipped /\ fetchObs.kept
  /\ targets # <<>>

\* C3: ping_domain returns one result whose status follows from what the run
\* of ping did: exit code 0 ONLINE, another exit code OFFLINE, the timeout
\* TIMEOUT, another exception ERROR with the exception's text as details;
\* the program goes on after it.
C3_StatusFollowsOutcome ==
  pc = "sleep" =>
    /\ Len(results) = i
    /\ exit = "running"
    /\ LET r == results[i]
           o == lastOutcome
       IN /\ r.domain = targets[i].domain
          /\ o.kind \in {"exit", "timeout", "exception"}
          /\ (o.kind = "exit" /\ o.returncode = 0) => IsOnline(r) /\ ~IsError(r)
          /\ (o.kind = "exit" /\ o.returncode # 0) => IsOffline(r)
          /\ o.kind = "timeout" => IsTimeout(r) /\ ~IsError(r)
          /\ o.kind = "exception" => IsError(r) /\ r.details = <<"text", o.text>>
          /\ HowMany(LAMBDA P : P, <<IsOnline(r), IsOffline(r), IsTimeout(r), IsError(r)>>) = 1

\* A ping whose timeout expired, after a first ping that could not be run.
C3_Witness ==
  /\ pc = "sleep" /\ i = 2
  /\ lastOutcome.kind = "timeout"
  /\ IsError(results[1]) /\ IsTimeout(results[2])

\* C4: when the probe loop has finished, the results are as many as the
\* targets and the k-th result has the domain and the program of the k-th
\* target, whatever the statuses.
C4_OneResultPerTarget ==
  AfterLoop =>
    /\ Len(results) = Len(targets)
    /\ \A k \in 1..Len(targets) :
         /\ results[k].domain = targets[k].domain
         /\ results[k].program = targets[k].program

\* A finished loop over two targets of two programs, one ERROR, one TIMEOUT.
C4_Witness ==
  /\ pc = "summary" /\ Len(targets) = 2
  /\ targets[1].program # targets[2].program
  /\ IsError(results[1]) /\ IsTimeout(results[2])

\* C5: with an empty target list the run pings nothing and uploads nothing;
\* it prints that no target was found and ends before the probe loop, the
\* summary and the upload.
C5_EmptyTargetsStopEarly ==
  (~InFetch /\ targets = <<>>) =>
    /\ pc \in {"check_targets", "exited"}
    /\ pinged = <<>> /\ results = <<>> /\ posts = 0 /\ sleeps = 0
    /\ printed \cap {"summary", "uploaded", "upload_failed", "upload_error", "done"} = {}
    /\ pc = "exited" => "no_targets" \in printed

\* A run that ended on an empty target list.
C5_Witness ==
  pc = "exited" /\ targets = <<>> /\ "no_targets" \in printed

\* C6: the returned list has one entry for exactly the scope entries whose
\* scope_type is "in_scope" and whose domain or target field is non-empty,
\* with the domain field if non-empty, else the target field, and with the
\* name of the owning program; so has the list under construction.
C6_TargetsAreInScopeEntries ==
  ~fetchObs.raised =>
    (IF Returned THEN targets ELSE all_domains) = fetchObs.expected

\* A returned list with a domain taken from each field and an entry left out.
C6_Witness ==
  /\ Returned /\ ~fetchObs.raised
  /\ fetchObs.dropped
  /\ {t.domain : t \in Range(targets)} = {"a.example", "b.example"}

\* C7: an exception inside get_targets_from_api ends the fetch at once with
\* the empty list, also when targets had been collected, and no request
\* follows it.
C7_ExceptionReturnsEmpty ==
  fetchObs.raised => Returned /\ targets = <<>> /\ fetchObs.lateGets = 0

\* An exception after earlier answers had yielded in-scope targets.
C7_Witness ==
  fetchObs.raised /\ fetchObs.expected # <<>> /\ targets = <<>>

\* C8: the upload POST is issued at most once; whatever its outcome, main()
\* goes on to its closing step and ends normally.
C8_UploadOnceNeverFatal ==
  /\ posts <= 1
  /\ posts = 1 =>
       /\ pc \in {"done", "exited"}
       /\ pc = "done" => exit = "running" /\ ENABLED Done
       /\ pc = "exited" => exit = "normal" /\ "done" \in printed

\* A run that ended normally after the upload raised an exception.
C8_Witness ==
  pc = "exited" /\ exit = "normal" /\ posts = 1 /\ "upload_error" \in printed

\* C9: fetch, probe, report, in this order: no ping before the fetch has
\* returned; the pings are those of the targets, one each and in order;
\* every ping is followed by one pause; the upload is issued after the last
\* ping and its pause, and no ping follows it.
C9_StagesInOrder ==
  /\ (InFetch \/ Returned) => pinged = <<>> /\ sleeps = 0 /\ posts = 0
  /\ Len(pinged) <= Len(targets)
  /\ \A k \in 1..Len(pinged) : pinged[k] = targets[k].domain
  /\ sleeps = (IF pc = "sleep" THEN Len(pinged) - 1 ELSE Len(pinged))
  /\ (pc \in {"upload", "done"} \/ posts > 0) =>
       Len(pinged) = Len(targets) /\ sleeps = Len(targets)

\* An upload after two pings of the same domain.
C9_Witness ==
  /\ posts = 1 /\ Len(targets) = 2
  /\ targets[1].domain = targets[2].domain
  /\ pinged = <<targets[1].domain, targets[2].domain>>

\* C10: the online, offline and timeout counts of the summary add up to the
\* total; ERROR results are counted as offline.
C10_SummaryPartition ==
  "summary" \in printed =>
    /\ summary.total = Len(results)
    /\ summary.online + summary.offline + summary.timeout = summary.total
    /\ summary.online = HowMany(IsOnline, results)
    /\ summary.timeout = HowMany(IsTimeout, results)
    /\ summary.offline = HowMany(LAMBDA r : IsOffline(r) \/ IsError(r), results)

\* A summary over an ERROR result and an OFFLINE result.
C10_Witness ==
  /\ "summary" \in printed /\ Len(results) = 2
  /\ IsError(results[1]) /\ IsOffline(results[2])
  /\ summary.offline = 2

====
